---- MODULE Spec2Model ----
(***************************************************************************)
(* Model of the deterministic reference planner of noir-ai                 *)
(* (app/core/planning/mock_planner.py): MockPlanner.create_plan and        *)
(* MockPlanner.adapt_plan, over the Step / Target / Evidence records of    *)
(* app/core/models.                                                        *)
(*                                                                         *)
(* Specifications:                                                         *)
(*   Spec               a caller builds a Target and a context, calls      *)
(*                      create_plan once and then adapt_plan any number    *)
(*                      of times;                                          *)
(*   SpecAdapt          adapt_plan called (repeatedly) on an arbitrary     *)
(*                      plan, i.e. as a function of any List[Step];        *)
(*   SpecAdaptIds       the same, on plans whose step ids were not         *)
(*                      assigned by create_plan;                           *)
(*   SpecInvestigation  an Investigation record and its field updates.     *)
(***************************************************************************)
EXTENDS Integers, Sequences, FiniteSets, TLC

VARIABLES
    pc,          \* caller position: "start", "planned" (create_plan returned),
                 \* "create_failed", "adapted" (adapt_plan returned), "adapt_failed"
    target,      \* the Target handed to create_plan
    context,     \* the context handed to create_plan (Optional[Dict])
    created,     \* the list create_plan returned (<<>> before it returns)
    plan,        \* the caller's current plan (List[Step])
    inPlan,      \* current_plan argument of the last adapt_plan call
    evidence,    \* evidence argument of the last adapt_plan call
    sameAsPrev,  \* the last adapt_plan call repeated the evidence of the call before it
    error,       \* kind of the exception that ended the last call, or "none"
    errorMsg,    \* the parts of the exception's message, in order
    investigation \* an Investigation record (the fields the properties read)

vars == <<pc, target, context, created, plan, inPlan, evidence, sameAsPrev, error, errorMsg,
          investigation>>

-----------------------------------------------------------------------------
(* Bounds of the model *)

MaxEvidence == 2      \* longest evidence list handed to adapt_plan
MaxPlanLen == 3       \* longest hand-built plan handed to adapt_plan (SpecAdapt)

-----------------------------------------------------------------------------
(* Enumerations and input domains *)

TargetTypeValues == {"ip", "domain", "url", "company"}

CostTierValues == {"free", "basic", "premium"}

SupportedTypes == {"domain", "url", "ip"}

InvestigationStatusValues ==
    {"pending", "in_progress", "completed", "cancelled", "rejected", "failed"}

\* datetime values, as instants.
Timestamps == {1, 2}

NormalizedValues == {"test.com"}

Targets == [type : TargetTypeValues, normalized_value : NormalizedValues]

ContextKeys == {"demo", "include_news"}

EmptyDict == [k \in {} |-> FALSE]

\* The dict m extended with the budget knob max_cost_tier = tier.
WithMaxCostTier(m, tier) ==
    [k \in DOMAIN m \cup {"max_cost_tier"} |->
        IF k = "max_cost_tier" THEN tier ELSE m[k]]

\* Optional[Dict[str, Any]]: None, or a dict holding any subset of the two
\* recognised keys with boolean values, with or without a max_cost_tier
\* entry (a key create_plan never reads).
Contexts ==
    LET flags == UNION {[D -> BOOLEAN] : D \in SUBSET ContextKeys}
    IN  {[none |-> TRUE, map |-> EmptyDict]} \cup
        {[none |-> FALSE, map |-> m] : m \in flags} \cup
        {[none |-> FALSE, map |-> WithMaxCostTier(m, tier)] :
            m \in flags, tier \in CostTierValues}

\* Investigation.settings values: empty, or declaring max_cost_tier.
SettingsValues == {EmptyDict} \cup {WithMaxCostTier(EmptyDict, tier) : tier \in CostTierValues}

\* Investigation records: status is any member of InvestigationStatus,
\* completed_at is None (<<>>) or a datetime (<<t>>); no validator relates
\* the two.
Investigations ==
    [status : InvestigationStatusValues,
     completed_at : {<<>>} \cup {<<t>> : t \in Timestamps},
     demo_mode : BOOLEAN,
     settings : SettingsValues]

\* Investigation(id=..., target=...) with every default.
DefaultInvestigation ==
    [status |-> "pending", completed_at |-> <<>>, demo_mode |-> FALSE,
     settings |-> EmptyDict]

RECURSIVE SeqsUpTo(_, _)
SeqsUpTo(S, n) ==
    IF n = 0 THEN {<<>>}
    ELSE LET shorter == SeqsUpTo(S, n - 1)
         IN  shorter \cup {Append(s, x) : s \in {t \in shorter : Len(t) = n - 1}, x \in S}

\* Evidence.risk_indicators values: empty, without a "high" entry, a single
\* "high" entry, and a "high" entry that is not the first one.
IndicatorLists ==
    {<<>>,
     <<[severity |-> "medium"]>>,
     <<[severity |-> "high"]>>,
     <<[severity |-> "low"], [severity |-> "high"]>>}

\* Evidence.step_id values: an id that create_plan gives the first step of
\* a domain plan, so it is present in some plans and absent from others.
EvidenceStepIds == {"step_domain_001"}

EvidenceItems ==
    [step_id : EvidenceStepIds,
     target_value : NormalizedValues,
     risk_indicators : IndicatorLists]

EvidenceSeqs == SeqsUpTo(EvidenceItems, MaxEvidence)

-----------------------------------------------------------------------------
(* Helpers: dict.get, the ":03d" format, list.insert *)

DictGet(d, key, default) == IF key \in DOMAIN d THEN d[key] ELSE default

DigitChars == <<"0", "1", "2", "3", "4", "5", "6", "7", "8", "9">>

RECURSIVE DecStr(_)
DecStr(n) ==
    IF n < 10 THEN DigitChars[n + 1]
    ELSE DecStr(n \div 10) \o DigitChars[(n % 10) + 1]

RECURSIVE NumDigits(_)
NumDigits(n) == IF n < 10 THEN 1 ELSE 1 + NumDigits(n \div 10)

RECURSIVE Zeros(_)
Zeros(k) == IF k <= 0 THEN "" ELSE "0" \o Zeros(k - 1)

\* Variant: the counter formatted without zero padding (f"{n}").
Fmt03d_NoPad(n) == DecStr(n)

\* f"{n:03d}": decimal digits, left-padded with zeros to width 3.
Fmt03d(n) == Zeros(3 - NumDigits(n)) \o DecStr(n)

\* Variant: the item lands one position too far (off by one).
ListInsert_After(list, idx, item) ==
    SubSeq(list, 1, idx + 1) \o <<item>> \o SubSeq(list, idx + 2, Len(list))

\* list.insert(idx, item) for a 0-based idx in 0..len(list).
ListInsert(list, idx, item) ==
    SubSeq(list, 1, idx) \o <<item>> \o SubSeq(list, idx + 1, Len(list))

-----------------------------------------------------------------------------
(* Step records *)

Step(id, primitive, params, label, cost_tier, timeout_s, parallel) ==
    [id |-> id, primitive |-> primitive, params |-> params, label |-> label,
     cost_tier |-> cost_tier, timeout_s |-> timeout_s, parallel |-> parallel]

StepId(t, step_counter) == "step_" \o t.type \o "_" \o Fmt03d(step_counter)

WhoisStep(t, step_counter) ==
    Step(StepId(t, step_counter), "whois",
         [domain |-> t.normalized_value],
         "WHOIS Domain Lookup", "free", 30, FALSE)

WebSearchStep(t, demo_mode, step_counter) ==
    Step(StepId(t, step_counter), "web_search",
         [query |-> t.normalized_value,
          max_results |-> IF demo_mode THEN 5 ELSE 3],
         "Web Search", "free", 15, TRUE)

ReputationStep(t, step_counter) ==
    Step(StepId(t, step_counter), "reputation",
         [target |-> t.normalized_value,
          engines |-> <<"virustotal", "safebrowsing">>],
         "Reputation Check", "free", 20, TRUE)

NewsSearchStep(t, step_counter) ==
    Step(StepId(t, step_counter), "news_search",
         [query |-> t.normalized_value \o " scam OR complaints OR fraud",
          days_back |-> 30],
         "News & Complaint Search", "basic", 25, FALSE)

RiskScoreStep(t, step_counter) ==
    Step(StepId(t, step_counter), "risk_score",
         [aggregation_method |-> "weighted_average",
          confidence_threshold |-> "0.7"],
         "Risk Assessment", "free", 5, FALSE)

-----------------------------------------------------------------------------
(* MockPlanner.create_plan *)

\* Variant: the type check accepts every member of TargetType.
IsSupported_All(t) == t.type \in TargetTypeValues

IsSupported(t) == t.type \in SupportedTypes

\* context = context or {}
ContextOrEmpty(c) == IF c.none \/ DOMAIN c.map = {} THEN EmptyDict ELSE c.map

DemoMode(c) == DictGet(ContextOrEmpty(c), "demo", FALSE)

\* Variant: include_news is not consulted.
WantsNews_DemoOnly(c) == DemoMode(c)

WantsNews(c) == DemoMode(c) \/ DictGet(ContextOrEmpty(c), "include_news", FALSE)

\* Variant: WHOIS for domains and IPs instead of domains and URLs.
HasWhois_WithIp(t) == t.type \in {"domain", "ip"}

HasWhois(t) == t.type \in {"domain", "url"}

\* Variant: the optional news_search block placed after the risk_score block.
create_plan_NewsAfterRisk(t, c) ==
    LET demo_mode == DemoMode(c)
        c0 == 1
        s1 == IF HasWhois(t) THEN <<WhoisStep(t, c0)>> ELSE <<>>
        c1 == IF HasWhois(t) THEN c0 + 1 ELSE c0
        s2 == Append(s1, WebSearchStep(t, demo_mode, c1))
        c2 == c1 + 1
        s3 == Append(s2, ReputationStep(t, c2))
        c3 == c2 + 1
        s4 == Append(s3, RiskScoreStep(t, c3))
        c4 == c3 + 1
    IN  IF WantsNews(c) THEN Append(s4, NewsSearchStep(t, c4)) ELSE s4

\* The steps create_plan appends, in order, for a supported target; cN is
\* the value of step_counter after the N-th block.
create_plan(t, c) ==
    LET demo_mode == DemoMode(c)
        c0 == 1
        s1 == IF HasWhois(t) THEN <<WhoisStep(t, c0)>> ELSE <<>>
        c1 == IF HasWhois(t) THEN c0 + 1 ELSE c0
        s2 == Append(s1, WebSearchStep(t, demo_mode, c1))
        c2 == c1 + 1
        s3 == Append(s2, ReputationStep(t, c2))
        c3 == c2 + 1
        s4 == IF WantsNews(c) THEN Append(s3, NewsSearchStep(t, c3)) ELSE s3
        c4 == IF WantsNews(c) THEN c3 + 1 ELSE c3
    IN  Append(s4, RiskScoreStep(t, c4))

\* The orders in which iterating the set _supported_types can yield its
\* members (set iteration order is not fixed).
SupportedOrders ==
    {o \in [1..Cardinality(SupportedTypes) -> SupportedTypes] :
        \A i, j \in DOMAIN o : i # j => o[i] # o[j]}

RECURSIVE JoinParts(_, _)
JoinParts(seq, sep) ==
    IF Len(seq) = 0 THEN <<>>
    ELSE IF Len(seq) = 1 THEN <<seq[1]>>
    ELSE <<seq[1], sep>> \o JoinParts(Tail(seq), sep)

\* The parts of the PlannerError message, in order of appearance.
UnsupportedMessage(t, order) ==
    <<"MockPlanner doesn't support target type: ", t.type, ". ",
      "Supported types: ">> \o JoinParts(order, ", ")

-----------------------------------------------------------------------------
(* MockPlanner.adapt_plan *)

\* Variant: any indicator counts as high risk (severity not compared).
HighRiskFound_AnyIndicator(ev) ==
    \E i \in 1..Len(ev) : Len(ev[i].risk_indicators) > 0

HighRiskFound(ev) ==
    \E i \in 1..Len(ev) :
        \E j \in 1..Len(ev[i].risk_indicators) :
            DictGet(ev[i].risk_indicators[j], "severity", "None") = "high"

\* Variant: the existing news_search step is not detected.
HasNewsSearch_Never(current_plan) == FALSE

\* Variant: only the first step of the plan is examined.
HasNewsSearch_FirstOnly(current_plan) ==
    Len(current_plan) > 0 /\ current_plan[1].primitive = "news_search"

HasNewsSearch(current_plan) ==
    \E i \in 1..Len(current_plan) : current_plan[i].primitive = "news_search"

HasRiskScore(current_plan) ==
    \E i \in 1..Len(current_plan) : current_plan[i].primitive = "risk_score"

\* Variant: the new step is placed at the end of the list (append).
RiskScoreIdx_End(current_plan) == Len(current_plan)

\* next(i for i, step in enumerate(current_plan) if step.primitive == "risk_score"),
\* 0-based; defined only when such a step exists.
RiskScoreIdx(current_plan) ==
    (CHOOSE i \in 1..Len(current_plan) :
        /\ current_plan[i].primitive = "risk_score"
        /\ \A k \in 1..(i - 1) : current_plan[k].primitive # "risk_score") - 1

\* Variant: the inserted step is marked parallel.
AdaptiveNewsStep_Parallel(current_plan, ev) ==
    Step("step_adaptive_" \o Fmt03d(Len(current_plan)), "news_search",
         [query |-> ev[1].target_value \o " scam OR complaints OR fraud",
          days_back |-> 90],
         "Deep News Search (High Risk Detected)", "basic", 30, TRUE)

AdaptiveNewsStep(current_plan, ev) ==
    Step("step_adaptive_" \o Fmt03d(Len(current_plan)), "news_search",
         [query |-> ev[1].target_value \o " scam OR complaints OR fraud",
          days_back |-> 90],
         "Deep News Search (High Risk Detected)", "basic", 30, FALSE)

\* Variant: adapt_plan first validates every Evidence.step_id against the
\* ids of current_plan and raises PlannerError on an unknown id.
adapt_plan_Validating(current_plan, ev) ==
    IF \E i \in 1..Len(ev) :
          \A k \in 1..Len(current_plan) : current_plan[k].id # ev[i].step_id
    THEN [error |-> "PlannerError", plan |-> current_plan]
    ELSE IF Len(ev) = 0 THEN [error |-> "none", plan |-> current_plan]
    ELSE IF HighRiskFound(ev) /\ ~HasNewsSearch(current_plan)
    THEN IF ~HasRiskScore(current_plan)
         THEN [error |-> "RuntimeError", plan |-> current_plan]
         ELSE [error |-> "none",
               plan |-> ListInsert(current_plan, RiskScoreIdx(current_plan),
                                   AdaptiveNewsStep(current_plan, ev))]
    ELSE [error |-> "none", plan |-> current_plan]

\* The outcome of adapt_plan: the returned list, or the kind of the
\* exception that leaves the coroutine. next() on an exhausted generator
\* raises StopIteration, which a coroutine body turns into RuntimeError.
adapt_plan(current_plan, ev) ==
    IF Len(ev) = 0 THEN [error |-> "none", plan |-> current_plan]
    ELSE IF HighRiskFound(ev) /\ ~HasNewsSearch(current_plan)
    THEN IF ~HasRiskScore(current_plan)
         THEN [error |-> "RuntimeError", plan |-> current_plan]
         ELSE [error |-> "none",
               plan |-> ListInsert(current_plan, RiskScoreIdx(current_plan),
                                   AdaptiveNewsStep(current_plan, ev))]
    ELSE [error |-> "none", plan |-> current_plan]

-----------------------------------------------------------------------------
(* Actions *)

\* await planner.create_plan(target, context)
CreatePlan ==
    /\ pc = "start"
    /\ IF ~IsSupported(target)
       THEN \E order \in SupportedOrders :
               /\ pc' = "create_failed"
               /\ error' = "PlannerError"
               /\ errorMsg' = UnsupportedMessage(target, order)
               /\ UNCHANGED <<created, plan>>
       ELSE /\ pc' = "planned"
            /\ created' = create_plan(target, context)
            /\ plan' = create_plan(target, context)
            /\ UNCHANGED <<error, errorMsg>>
    /\ UNCHANGED <<target, context, inPlan, evidence, sameAsPrev, investigation>>

\* plan = await planner.adapt_plan(plan, ev)
AdaptPlan ==
    /\ pc \in {"planned", "adapted"}
    /\ \E ev \in EvidenceSeqs :
        LET r == adapt_plan(plan, ev)
        IN  /\ inPlan' = plan
            /\ evidence' = ev
            /\ sameAsPrev' = (pc = "adapted" /\ ev = evidence)
            /\ error' = r.error
            /\ IF r.error = "none"
               THEN pc' = "adapted" /\ plan' = r.plan
               ELSE pc' = "adapt_failed" /\ plan' = plan
    /\ UNCHANGED <<target, context, created, errorMsg, investigation>>

-----------------------------------------------------------------------------
(* Spec: create_plan, then adapt_plan any number of times *)

Init ==
    /\ pc = "start"
    /\ target \in Targets
    /\ context \in Contexts
    /\ created = <<>>
    /\ plan = <<>>
    /\ inPlan = <<>>
    /\ evidence = <<>>
    /\ sameAsPrev = FALSE
    /\ error = "none"
    /\ errorMsg = <<>>
    /\ investigation = DefaultInvestigation

Next == CreatePlan \/ AdaptPlan

Spec == Init /\ [][Next]_vars

-----------------------------------------------------------------------------
(* SpecAdapt: adapt_plan on an arbitrary list of steps *)

PoolTarget == [type |-> "domain", normalized_value |-> "test.com"]

\* Steps a hand-built plan is made of: one of each kind adapt_plan
\* distinguishes (risk_score, news_search, any other primitive).
StepPool ==
    {WebSearchStep(PoolTarget, FALSE, 1),
     NewsSearchStep(PoolTarget, 2),
     RiskScoreStep(PoolTarget, 3)}

ArbitraryPlans == SeqsUpTo(StepPool, MaxPlanLen)

InitAdapt ==
    /\ pc = "planned"
    /\ target = PoolTarget
    /\ context = [none |-> TRUE, map |-> EmptyDict]
    /\ created = <<>>
    /\ plan \in ArbitraryPlans
    /\ inPlan = <<>>
    /\ evidence = <<>>
    /\ sameAsPrev = FALSE
    /\ error = "none"
    /\ errorMsg = <<>>
    /\ investigation = DefaultInvestigation

NextAdapt == AdaptPlan

SpecAdapt == InitAdapt /\ [][NextAdapt]_vars

-----------------------------------------------------------------------------
(* SpecAdaptIds: adapt_plan on plans whose steps carry ids chosen by the   *)
(* caller (or by another planner), not by create_plan                      *)

\* A step that is not a news_search step and whose id has the form
\* adapt_plan gives the step it inserts.
ForeignStep ==
    Step("step_adaptive_002", "web_search",
         [query |-> PoolTarget.normalized_value, max_results |-> 3],
         "Web Search", "free", 15, TRUE)

IdPool == {ForeignStep, RiskScoreStep(PoolTarget, 3)}

InitAdaptIds ==
    /\ pc = "planned"
    /\ target = PoolTarget
    /\ context = [none |-> TRUE, map |-> EmptyDict]
    /\ created = <<>>
    /\ plan \in SeqsUpTo(IdPool, MaxPlanLen)
    /\ inPlan = <<>>
    /\ evidence = <<>>
    /\ sameAsPrev = FALSE
    /\ error = "none"
    /\ errorMsg = <<>>
    /\ investigation = DefaultInvestigation

NextAdaptIds == AdaptPlan

SpecAdaptIds == InitAdaptIds /\ [][NextAdaptIds]_vars

-----------------------------------------------------------------------------
(* SpecInvestigation: an Investigation record, constructed with the default  *)
(* status and completed_at, and then updated field by field                *)

\* investigation.status = s (plain attribute assignment: the model is not
\* frozen and does not validate assignments).
SetStatus ==
    /\ \E s \in InvestigationStatusValues :
          investigation' = [investigation EXCEPT !.status = s]
    /\ UNCHANGED <<pc, target, context, created, plan, inPlan, evidence,
                   sameAsPrev, error, errorMsg>>

\* investigation.completed_at = v, v a datetime or None.
SetCompletedAt ==
    /\ \E v \in {<<>>} \cup {<<t>> : t \in Timestamps} :
          investigation' = [investigation EXCEPT !.completed_at = v]
    /\ UNCHANGED <<pc, target, context, created, plan, inPlan, evidence,
                   sameAsPrev, error, errorMsg>>

InitInvestigation ==
    /\ pc = "start"
    /\ target = PoolTarget
    /\ context = [none |-> TRUE, map |-> EmptyDict]
    /\ created = <<>>
    /\ plan = <<>>
    /\ inPlan = <<>>
    /\ evidence = <<>>
    /\ sameAsPrev = FALSE
    /\ error = "none"
    /\ errorMsg = <<>>
    /\ investigation \in
          {i \in Investigations : i.status = "pending" /\ i.completed_at = <<>>}

NextInvestigation == SetStatus \/ SetCompletedAt

SpecInvestigation == InitInvestigation /\ [][NextInvestigation]_vars

-----------------------------------------------------------------------------
(* Vocabulary of the properties *)

Range(seq) == {seq[i] : i \in 1..Len(seq)}

PositionsOf(p, primitive) == {i \in 1..Len(p) : p[i].primitive = primitive}

\* create_plan has been called and the call is over.
CreateCalled == pc # "start"

\* The last operation was an adapt_plan call (returned or raised).
AdaptCalled == pc \in {"adapted", "adapt_failed"}

\* Some riskIndicators entry of some evidence item has severity "high".
SomeHighSeverity(ev) ==
    \E i \in 1..Len(ev) : \E j \in 1..Len(ev[i].risk_indicators) :
        ev[i].risk_indicators[j].severity = "high"

\* The context asks for news: demo = true or include_news = true.
ContextAsksNews(c) ==
    \/ "demo" \in DOMAIN c.map /\ c.map["demo"] = TRUE
    \/ "include_news" \in DOMAIN c.map /\ c.map["include_news"] = TRUE

\* The plan ends with its only risk_score step.
EndsWithOnlyRiskScore(p) ==
    /\ Len(p) > 0
    /\ PositionsOf(p, "risk_score") = {Len(p)}

ThreeDigit == <<"001", "002", "003", "004", "005", "006", "007", "008", "009">>

-----------------------------------------------------------------------------
(* C1 .. C4: create_plan *)

\* C1: for every target of type domain, url or ip and every context,
\* create_plan returns a non-empty list with exactly one risk_score step,
\* and that step is the last element.
C1_RiskScoreIsLast ==
    (CreateCalled /\ target.type \in {"domain", "url", "ip"}) =>
        /\ pc # "create_failed"
        /\ Len(created) > 0
        /\ PositionsOf(created, "risk_score") = {Len(created)}

C1_Witness ==
    /\ pc = "planned"
    /\ target.type = "ip"
    /\ ~context.none /\ DOMAIN context.map = ContextKeys
    /\ context.map["demo"] = FALSE /\ context.map["include_news"] = TRUE
    /\ Len(created) = 4
    /\ created[4].primitive = "risk_score"

\* C2: in every plan create_plan returns the k-th step has id
\* step_<type>_<k as three digits>, so ids are pairwise unique and the
\* numeric suffix grows by one along the plan.
C2_StepIds ==
    (CreateCalled /\ pc # "create_failed") =>
        /\ \A k \in 1..Len(created) :
              created[k].id = "step_" \o target.type \o "_" \o ThreeDigit[k]
        /\ \A i, j \in 1..Len(created) : i # j => created[i].id # created[j].id

C2_Witness ==
    /\ pc = "planned"
    /\ target.type = "url"
    /\ Len(created) = 5
    /\ created[4].primitive = "news_search"
    /\ created[5].id = "step_url_005"

\* C3: the plan create_plan returns holds a news_search step iff the
\* context has demo = true or include_news = true; when present there is
\* exactly one and its days_back is 30.
C3_NewsIffRequested ==
    (CreateCalled /\ pc # "create_failed") =>
        /\ Cardinality(PositionsOf(created, "news_search"))
              = (IF ContextAsksNews(context) THEN 1 ELSE 0)
        /\ \A i \in PositionsOf(created, "news_search") :
              created[i].params.days_back = 30

C3_Witness ==
    /\ pc = "planned"
    /\ ~context.none /\ DOMAIN context.map = {"include_news"}
    /\ context.map["include_news"] = TRUE
    /\ Cardinality(PositionsOf(created, "news_search")) = 1

\* C4: create_plan on a company target raises PlannerError for every
\* context: nothing is returned, and the message names "company" and
\* lists domain, url and ip.
C4_CompanyRejected ==
    (CreateCalled /\ target.type = "company") =>
        /\ pc = "create_failed"
        /\ error = "PlannerError"
        /\ created = <<>> /\ plan = <<>>
        /\ "company" \in Range(errorMsg)
        /\ {"domain", "url", "ip"} \subseteq Range(errorMsg)

C4_Witness ==
    /\ pc = "create_failed"
    /\ target.type = "company"
    /\ ~context.none /\ "demo" \in DOMAIN context.map /\ context.map["demo"] = TRUE
    /\ error = "PlannerError"
    /\ Len(errorMsg) = 9

-----------------------------------------------------------------------------
(* C5 .. C10: adapt_plan *)

\* C5: on a plan that ends with its only risk_score step and has no
\* news_search step, with evidence holding at least one "high" indicator,
\* adapt_plan returns the input plus exactly one step: a news_search step
\* with days_back = 90 immediately before the risk_score step, all input
\* steps unchanged and in their original order.
C5_InsertsDeepNewsSearch ==
    (/\ AdaptCalled
     /\ EndsWithOnlyRiskScore(inPlan)
     /\ PositionsOf(inPlan, "news_search") = {}
     /\ SomeHighSeverity(evidence)) =>
        /\ pc = "adapted"
        /\ Len(plan) = Len(inPlan) + 1
        /\ plan[Len(plan)] = inPlan[Len(inPlan)]
        /\ SubSeq(plan, 1, Len(inPlan) - 1) = SubSeq(inPlan, 1, Len(inPlan) - 1)
        /\ plan[Len(plan) - 1].primitive = "news_search"
        /\ plan[Len(plan) - 1].params.days_back = 90

C5_Witness ==
    /\ pc = "adapted"
    /\ Len(inPlan) = 1 /\ inPlan[1].primitive = "risk_score"
    /\ SomeHighSeverity(evidence)
    /\ Len(plan) = 2
    /\ plan[1].primitive = "news_search" /\ plan[1].params.days_back = 90
    /\ plan[2] = inPlan[1]

\* C6: a second adapt_plan call with the evidence of the call before it,
\* on the plan that call returned for a plan ending in risk_score, returns
\* that plan again (no second news_search step).
C6_Idempotent ==
    [][(/\ pc = "adapted"
        /\ Len(inPlan) > 0 /\ inPlan[Len(inPlan)].primitive = "risk_score"
        /\ inPlan' = plan
        /\ evidence' = evidence) =>
            (pc' = "adapted" /\ plan' = plan)]_vars

C6_Witness ==
    /\ pc = "adapted"
    /\ sameAsPrev
    /\ SomeHighSeverity(evidence)
    /\ plan = inPlan
    /\ Len(plan) > 0 /\ plan[Len(plan)].primitive = "risk_score"
    /\ \E i \in PositionsOf(plan, "news_search") : plan[i].params.days_back = 90
    /\ Cardinality(PositionsOf(plan, "news_search")) = 1

\* C7: adapt_plan returns a plan equal to current_plan whenever the
\* evidence is empty, or no indicator has severity "high", or current_plan
\* already holds a news_search step.
C7_UnchangedWithoutCondition ==
    (/\ AdaptCalled
     /\ \/ Len(evidence) = 0
        \/ ~SomeHighSeverity(evidence)
        \/ PositionsOf(inPlan, "news_search") # {}) =>
        (pc = "adapted" /\ plan = inPlan)

C7_Witness ==
    /\ pc = "adapted"
    /\ Len(evidence) = 2
    /\ evidence[1].risk_indicators = <<>>
    /\ evidence[2].risk_indicators = <<[severity |-> "medium"]>>
    /\ EndsWithOnlyRiskScore(inPlan)
    /\ PositionsOf(inPlan, "news_search") = {}
    /\ plan = inPlan

\* C8: after create_plan and any number of adapt_plan calls the plan still
\* ends with the risk_score step create_plan produced (same id and params)
\* and holds exactly one risk_score step.
C8_RiskScoreStaysLast ==
    (pc \in {"planned", "adapted", "adapt_failed"}) =>
        /\ pc # "adapt_failed"
        /\ Len(plan) > 0
        /\ plan[Len(plan)] = created[Len(created)]
        /\ PositionsOf(plan, "risk_score") = {Len(plan)}

C8_Witness ==
    /\ pc = "adapted"
    /\ Len(plan) = Len(created) + 1
    /\ plan[Len(plan)] = created[Len(created)]
    /\ plan[Len(plan) - 1].id = "step_adaptive_003"

\* Some evidence item's step_id is the id of no step of the plan.
DanglingStepId(ev, p) ==
    \E i \in 1..Len(ev) : \A k \in 1..Len(p) : p[k].id # ev[i].step_id

\* C9 as stated: adapt_plan fails with PlannerError whenever some evidence
\* item's step_id references a step id absent from current_plan.
C9_Original ==
    (AdaptCalled /\ DanglingStepId(evidence, inPlan)) =>
        (pc = "adapt_failed" /\ error = "PlannerError")

\* C9 as amended: adapt_plan does not validate step_id: with a step_id
\* absent from current_plan it never fails with PlannerError, and on a
\* plan that holds a risk_score step it returns a plan.
C9_StepIdIgnored ==
    (AdaptCalled /\ DanglingStepId(evidence, inPlan)) =>
        /\ error # "PlannerError"
        /\ (PositionsOf(inPlan, "risk_score") # {} => pc = "adapted")

C9_Witness ==
    /\ pc = "adapted"
    /\ DanglingStepId(evidence, inPlan)
    /\ SomeHighSeverity(evidence)
    /\ Len(inPlan) > 0
    /\ Len(plan) = Len(inPlan) + 1

\* C10: the planner raises no error kind other than PlannerError, also for
\* a plan without a risk_score step and evidence with a "high" indicator.
C10_OnlyPlannerError == error \in {"none", "PlannerError"}

-----------------------------------------------------------------------------
(* C11 .. C16 *)

TierRank == [free |-> 0, basic |-> 1, premium |-> 2]

\* C11: when the context declares max_cost_tier, no step of the plan
\* create_plan returned, and no step adapt_plan inserted into it, has a
\* cost_tier above it (free < basic < premium).
C11_WithinMaxCostTier ==
    (/\ pc \in {"planned", "adapted"}
     /\ "max_cost_tier" \in DOMAIN context.map) =>
        \A i \in 1..Len(plan) :
            TierRank[plan[i].cost_tier] <= TierRank[context.map["max_cost_tier"]]

TerminalStatuses == {"completed", "cancelled", "rejected", "failed"}

\* C12: in every state of an Investigation record, completed_at is set
\* iff status is completed, cancelled, rejected or failed.
C12_CompletedAtIffTerminal ==
    (investigation.completed_at # <<>>) <=> (investigation.status \in TerminalStatuses)

PairwiseUniqueIds(p) == \A i, j \in 1..Len(p) : i # j => p[i].id # p[j].id

\* C14: for every input plan with pairwise unique step ids, the plan
\* adapt_plan returns has pairwise unique step ids and every input step is
\* still in it with its id.
C14_IdsStayUnique ==
    (pc = "adapted" /\ PairwiseUniqueIds(inPlan)) =>
        /\ PairwiseUniqueIds(plan)
        /\ \A i \in 1..Len(inPlan) : \E j \in 1..Len(plan) : plan[j] = inPlan[i]

\* C15: in every plan reached by create_plan and adapt_plan calls the
\* parallel steps are exactly the web_search and the reputation step, which
\* are adjacent; whois, news_search and risk_score steps are not parallel.
C15_ParallelSteps ==
    (pc \in {"planned", "adapted"}) =>
        LET par == {i \in 1..Len(plan) : plan[i].parallel}
        IN  /\ par = PositionsOf(plan, "web_search") \cup PositionsOf(plan, "reputation")
            /\ \E k \in 1..Len(plan) : par = {k, k + 1}
            /\ \A i \in 1..Len(plan) :
                  plan[i].primitive \in {"whois", "news_search", "risk_score"}
                      => plan[i].parallel = FALSE

C15_Witness ==
    /\ pc = "adapted"
    /\ target.type = "ip"
    /\ Len(plan) = 4
    /\ plan[1].primitive = "web_search" /\ plan[1].parallel
    /\ plan[2].primitive = "reputation" /\ plan[2].parallel
    /\ plan[3].id = "step_adaptive_003" /\ ~plan[3].parallel
    /\ plan[4].primitive = "risk_score" /\ ~plan[4].parallel

\* C16: after create_plan, along any adapt_plan calls, the plan holds at
\* most one news_search step and is at most one step longer than the plan
\* create_plan returned; once it holds a news_search step or has changed,
\* every later adapt_plan call returns it unchanged.
C16_ConvergesAfterOneChange ==
    /\ [](pc \in {"planned", "adapted", "adapt_failed"} =>
            /\ Cardinality(PositionsOf(plan, "news_search")) <= 1
            /\ Len(plan) <= Len(created) + 1)
    /\ [][(/\ pc \in {"planned", "adapted"}
           /\ \/ PositionsOf(plan, "news_search") # {}
              \/ plan # created) =>
               (plan' = plan /\ pc' # "adapt_failed")]_vars

C16_Witness ==
    /\ pc = "adapted"
    /\ ~sameAsPrev
    /\ SomeHighSeverity(evidence)
    /\ inPlan = plan
    /\ plan # created
    /\ Len(plan) = Len(created) + 1
    /\ Cardinality(PositionsOf(plan, "news_search")) = 1

====
